---- MODULE Spec2Model ----
(***************************************************************************)
(* Model of pkg/earthquakes/usgs/cache.go: a keyed TTL cache with a        *)
(* per-entry mutex, bounded retries, an error breaker with cooldown and a  *)
(* statistics mirror guarded by one RW-mutex.                              *)
(* Time is counted in minutes (time.Minute = 1, time.Hour = 60).           *)
(***************************************************************************)
EXTENDS Integers, Sequences, FiniteSets, TLC

(* ------------------------------ bounds -------------------------------- *)
NumProcs == 2            \* concurrent callers in Spec
MaxCalls == 2            \* public calls started in Spec
MaxTime == 4             \* last clock value in Spec
NumTTLProcs == 1         \* callers in SpecTTL
MaxTTLCalls == 3         \* public calls started in SpecTTL
MaxTTLTime == 4          \* last clock value in SpecTTL
NumBreakerProcs == 1     \* callers in SpecBreaker
MaxBreakerCalls == 5     \* public calls started in SpecBreaker
MaxBreakerTime == 61     \* last clock value in SpecBreaker
MaxByIdCalls == 1        \* GetById calls of the one caller in SpecById
NumFailProcs == 1        \* callers in SpecFailures
MaxFailCalls == 5        \* public calls started in SpecFailures
NumFairProcs == 2        \* concurrent callers in SpecFair
MaxFairCalls == 3        \* public calls started in SpecFair
NumLockProcs == 2        \* concurrent callers in SpecLocks
MaxLockCalls == 2        \* public calls started in SpecLocks

\* every caller of some specification
Procs ==
  (1..NumProcs) \cup (1..NumTTLProcs) \cup (1..NumBreakerProcs) \cup
  (1..NumLockProcs) \cup (1..NumFairProcs) \cup (1..NumFailProcs)

(* ----------------------- constants of cache.go ------------------------ *)
maxTriesForRequest == 3
maxErrorsTotal == 10
waitBeforeReset == 60

ErrCacheFailure == "failure on caching earthquake collection"
ErrNotFound == "earthquake not found"
NoErr == "nil"

(* ------------- collaborators: enums, upstream, collections ------------ *)
Magnitude_value ==
  [MAGNITUDE_UNSPECIFIED |-> 0, MAGNITUDE_SIGNIFICANT |-> 1,
   MAGNITUDE_M45_PLUS |-> 2, MAGNITUDE_M25_PLUS |-> 3,
   MAGNITUDE_M10_PLUS |-> 4, MAGNITUDE_ALL |-> 5]

Past_value ==
  [PAST_UNSPECIFIED |-> 0, PAST_HOUR |-> 1, PAST_DAY |-> 2,
   PAST_7DAYS |-> 3, PAST_30DAYS |-> 4]

Magnitude_MAGNITUDE_ALL == Magnitude_value["MAGNITUDE_ALL"]
Past_PAST_UNSPECIFIED == Past_value["PAST_UNSPECIFIED"]
Past_PAST_HOUR == Past_value["PAST_HOUR"]
Past_PAST_DAY == Past_value["PAST_DAY"]
Past_PAST_7DAYS == Past_value["PAST_7DAYS"]
Past_PAST_30DAYS == Past_value["PAST_30DAYS"]

\* String() of a generated enum: the name, or the number for unknown values
MagnitudeString(m) ==
  IF \E n \in DOMAIN Magnitude_value : Magnitude_value[n] = m
  THEN CHOOSE n \in DOMAIN Magnitude_value : Magnitude_value[n] = m
  ELSE ToString(m)

PastString(pa) ==
  IF \E n \in DOMAIN Past_value : Past_value[n] = pa
  THEN CHOOSE n \in DOMAIN Past_value : Past_value[n] = pa
  ELSE ToString(pa)

\* *pb.Earthquake and *pb.EarthquakeCollection (nil is a value of its own)
Earthquake(id) == [isNil |-> FALSE, Id |-> id]
NilEq == [isNil |-> TRUE, Id |-> ""]
Collection(ids) ==
  [isNil |-> FALSE, Features |-> [i \in 1..Len(ids) |-> Earthquake(ids[i])]]
NilCol == [isNil |-> TRUE, Features |-> <<>>]

\* what fetch + ToEarthquakeCollection can produce for one attempt
UpstreamCols == {Collection(<<"eq1">>), Collection(<<"eq1", "eq42">>)}
UpstreamErrs == {"fetch error", "parse error"}
Outcome(err, col) == [err |-> err, col |-> col]
\* the upstream of Spec and SpecTTL: either error, or one collection
Upstream ==
  {Outcome(err, NilCol) : err \in UpstreamErrs} \cup
  {Outcome(NoErr, Collection(<<"eq1">>))}
\* the upstream of SpecBreaker: one error, or one collection
BreakerUpstream ==
  {Outcome("fetch error", NilCol), Outcome(NoErr, Collection(<<"eq1">>))}
\* the upstream of SpecById fails with an error that names the feed
ByIdUpstream(past) ==
  {Outcome("fetch error " \o PastString(past), NilCol)} \cup
  {Outcome(NoErr, col) : col \in UpstreamCols}
\* the upstream of SpecLocks is one fixed world: the day feed is down,
\* the sought record is in the 30-day feed only
LocksUpstream(past) ==
  CASE past = Past_PAST_DAY -> {Outcome("fetch error", NilCol)}
    [] past = Past_PAST_30DAYS ->
         {Outcome(NoErr, Collection(<<"eq1", "eq42">>))}
    [] OTHER -> {Outcome(NoErr, Collection(<<"eq1">>))}
Ids == {"eq42"}

(* ------------------------- pure functions ----------------------------- *)
resolveCacheKey(magnitude, past) ==
  MagnitudeString(magnitude) \o "@" \o PastString(past)

resolveMaxAge(magnitude, past) ==
  CASE past = Past_PAST_HOUR -> 3
    [] past = Past_PAST_DAY -> 5
    [] past = Past_PAST_7DAYS -> 10
    [] past = Past_PAST_30DAYS -> 15
    [] OTHER -> 15

(* --------------------------- time.Time -------------------------------- *)
ZeroTime == 0 - 1000000
After_Never(t, u) == FALSE
After_OrEqual(t, u) == t >= u
After(t, u) == t > u
Add(t, d) == t + d
\* instants at which Spec reads the clock: the start and the end
Instants == {0, MaxTime}
\* instants at which SpecTTL reads the clock: the start, and from one
\* minute before the shortest expiry on
TTLInstants ==
  {t \in 0..MaxTTLTime :
     t = 0 \/ t >= resolveMaxAge(Magnitude_MAGNITUDE_ALL, Past_PAST_HOUR) - 1}
\* instants at which SpecBreaker reads the clock: the start, and from one
\* cooldown after the start on
BreakerInstants ==
  {t \in 0..MaxBreakerTime : t = 0 \/ t >= waitBeforeReset}
\* instants at which SpecFailures reads the clock: the start, and the
\* last minute of and the first minute after a cooldown that began at the
\* start
FailInstants == {0, waitBeforeReset, waitBeforeReset + 1}

\* key set built by init(): every magnitude with every past value
Keys ==
  {resolveCacheKey(Magnitude_value[m], Past_value[pa]) :
     m \in DOMAIN Magnitude_value, pa \in DOMAIN Past_value}

\* arguments the callers of GetCollection / GetStats use
\* (the second pair has a past value outside the enum)
CallArgs == {<<Magnitude_MAGNITUDE_ALL, Past_PAST_HOUR>>,
             <<Magnitude_MAGNITUDE_ALL, 9>>}

\* arguments of the GetCollection / GetStats callers of SpecLocks: two
\* keys of the store
LockArgs == {<<Magnitude_MAGNITUDE_ALL, Past_PAST_HOUR>>,
             <<Magnitude_MAGNITUDE_ALL, Past_PAST_DAY>>}

(* ------------------------------ state --------------------------------- *)
VARIABLES
  entries,      \* key -> entry (mu, col, expires, errors, stat)
  statMutex,    \* sync.RWMutex: writer flag and reader count
  statCopies,   \* key -> stat, only for keys written so far
  now,          \* the wall clock read by time.Now()
  procs,        \* per caller: position, arguments, locals and result
  calls,        \* number of public calls started
  fetchCalls,   \* key -> upstream fetches of concurrent GetCollection calls
  storedAt,     \* key -> time of the last successful store
  served,       \* key -> collections returned (by fetch, by hit)
  firstCall,    \* key -> outcome of the first call that held the lock
  concurrent    \* key -> every call so far was issued before any returned

vars == <<entries, statMutex, statCopies, now, procs, calls,
          fetchCalls, storedAt, served, firstCall, concurrent>>

Histories == <<fetchCalls, storedAt, served, firstCall, concurrent>>

stat0 == [fetchCount |-> 0, hitCount |-> 0]

entry0 ==
  [mu |-> FALSE, col |-> NilCol, expires |-> ZeroTime,
   errCountSinceReset |-> 0, lastErrTime |-> ZeroTime, lastErr |-> NoErr,
   stat |-> stat0]

\* what one cacheGetList call saw when it got the lock (the entry, the
\* time since the last store and since the last failure), and what it did
hist0 ==
  [evaluated |-> FALSE, evalCol |-> NilCol, evalErrCount |-> 0,
   evalLastErr |-> NoErr, evalAge |-> 0, evalSinceErr |-> 0, evalHit |-> 0,
   attempts |-> 0, attemptErr |-> NoErr, leftErrCount |-> 0]

proc0 ==
  [pc |-> "idle", op |-> "none", magnitude |-> 0, past |-> 0, key |-> "",
   round |-> 0, col |-> NilCol, path |-> "none",
   id |-> "", todo |-> {}, lastErr |-> NoErr, trace |-> <<>>,
   resCol |-> NilCol, resEq |-> NilEq, resErr |-> NoErr, resStat |-> stat0,
   h |-> hist0]

init ==
  /\ entries = [k \in Keys |-> entry0]
  /\ statMutex = [w |-> FALSE, r |-> 0]
  /\ statCopies = <<>>

Init ==
  /\ init
  /\ now = 0
  /\ procs = [p \in Procs |-> proc0]
  /\ calls = 0
  /\ fetchCalls = [k \in Keys |-> 0]
  /\ storedAt = [k \in Keys |-> ZeroTime]
  /\ served = [k \in Keys |-> stat0]
  /\ firstCall = [k \in Keys |-> "none"]
  /\ concurrent = [k \in Keys |-> TRUE]

(* ----------------- control flow local to one caller ------------------- *)
RECURSIVE Returned(_, _, _), RangeNext(_), EnterList(_, _, _)

\* col.Features holds a record with this id
Contains(col, id) ==
  \E i \in 1..Len(col.Features) : col.Features[i].Id = id

FindById_Never(col, id) == NilEq

\* cache.go:82-86: the first record of col.Features with the given id
FindById(col, id) ==
  IF \E i \in 1..Len(col.Features) : col.Features[i].Id = id
  THEN LET i == CHOOSE i \in 1..Len(col.Features) :
                  /\ col.Features[i].Id = id
                  /\ \A j \in 1..(i - 1) : col.Features[j].Id # id
       IN col.Features[i]
  ELSE NilEq

RememberErr_First(lastErr, err) ==
  IF lastErr # NoErr THEN lastErr ELSE err

\* cache.go:78-79: lastErr after a window returned err
RememberErr(lastErr, err) ==
  IF err # NoErr THEN err ELSE lastErr

\* cacheGetList returned (col, err) to its caller: the public caller gets
\* the pair; cacheGetById (cache.go:78-87) scans the collection and loops
Returned(pr, col, err) ==
  IF pr.op = "list"
  THEN {[pr EXCEPT !.pc = "idle", !.resCol = col, !.resErr = err,
                   !.col = NilCol, !.path = "none", !.round = 0]}
  ELSE LET pr1 == [pr EXCEPT !.col = NilCol, !.path = "none", !.round = 0,
                     !.trace = Append(@, [past |-> pr.past, err |-> err,
                                 found |-> err = NoErr /\ Contains(col, pr.id)]),
                     !.lastErr = RememberErr(@, err)]
       IN IF err = NoErr /\ ~FindById(col, pr.id).isNil
          THEN {[pr1 EXCEPT !.pc = "idle", !.resEq = FindById(col, pr.id),
                            !.resErr = NoErr]}
          ELSE RangeNext(pr1)

\* next iteration of "for _, past := range pb.Past_value": Go leaves the
\* iteration order of a map unspecified, so any remaining name may come
\* next; after the last one, cache.go:91-94
RangeNext(pr) ==
  IF pr.todo = {}
  THEN {[pr EXCEPT !.pc = "idle", !.resEq = NilEq,
                   !.resErr = IF pr.lastErr # NoErr THEN pr.lastErr
                              ELSE ErrNotFound]}
  ELSE UNION {LET pr1 == [pr EXCEPT !.todo = @ \ {n}]
              IN IF Past_value[n] # Past_PAST_UNSPECIFIED
                 THEN EnterList(pr1, Magnitude_MAGNITUDE_ALL, Past_value[n])
                 ELSE RangeNext(pr1)
              : n \in pr.todo}

EntryMissing_Never(key) == FALSE

\* cache.go:103-104: entries[key] is nil, the map has no such key
EntryMissing(key) == key \notin Keys

\* cache.go:101-106: resolve the key, fail on an unknown one, else go
\* on to entry.mu.Lock()
EnterList(pr, magnitude, past) ==
  LET key == resolveCacheKey(magnitude, past)
      pr1 == [pr EXCEPT !.magnitude = magnitude, !.past = past,
                        !.key = key, !.h = hist0]
  IN IF EntryMissing(key)
     THEN Returned(pr1, NilCol, ErrCacheFailure)
     ELSE {[pr1 EXCEPT !.pc = "lock"]}

\* a caller that now waits for an entry lock has issued a call on that key
Issued(pr2) ==
  IF pr2.pc = "lock"
  THEN [concurrent EXCEPT ![pr2.key] = @ /\ firstCall[pr2.key] = "none"]
  ELSE concurrent

(* ------------------------------ actions ------------------------------- *)
\* public GetCollection: a caller starts cacheGetList(magnitude, past)
GetCollection(p, magnitude, past) ==
  /\ procs[p].pc = "idle"
  /\ calls' = calls + 1
  /\ \E pr2 \in EnterList([proc0 EXCEPT !.op = "list"], magnitude, past) :
       /\ procs' = [procs EXCEPT ![p] = pr2]
       /\ concurrent' = Issued(pr2)
  /\ UNCHANGED <<entries, statMutex, statCopies, now,
                 fetchCalls, storedAt, served, firstCall>>

TryLock_Always(e) == TRUE
TryLock_Global(e) == \A k \in Keys : ~entries[k].mu

\* cache.go:111: entry.mu.Lock() can proceed
TryLock(e) == ~e.mu

Unlock_Skip(e) == e
Unlock_Stamp(e) == [e EXCEPT !.mu = FALSE, !.lastErrTime = now]

\* cache.go:112: the deferred entry.mu.Unlock() runs at every return
Unlock(e) == [e EXCEPT !.mu = FALSE]

LoopCond_OneMore(round, e) ==
  round <= maxTriesForRequest /\ e.errCountSinceReset < maxErrorsTotal

LoopCond_RoundOnly(round, e) == round < maxTriesForRequest
LoopCond_Never(round, e) == FALSE

\* cache.go:137: the loop test
LoopCond(round, e) ==
  round < maxTriesForRequest /\ e.errCountSinceReset < maxErrorsTotal

BreakerElapsed_Always(e, t) == e.errCountSinceReset >= maxErrorsTotal

BreakerElapsed_Late(e, t) ==
  /\ e.errCountSinceReset >= maxErrorsTotal
  /\ After(t, Add(e.lastErrTime, 2 * waitBeforeReset))

\* cache.go:127-128: the breaker tripped and its cooldown is over
BreakerElapsed(e, t) ==
  /\ e.errCountSinceReset >= maxErrorsTotal
  /\ After(t, Add(e.lastErrTime, waitBeforeReset))

\* cache.go:137-168 from the loop test on: start the next attempt, or
\* give up, unlock and return the last error
LoopOrFail(p, pr, e) ==
  IF LoopCond(pr.round, e)
  THEN /\ entries' = [entries EXCEPT ![pr.key] = [e EXCEPT !.mu = TRUE]]
       /\ procs' = [procs EXCEPT ![p] =
                      [pr EXCEPT !.pc = "fetch", !.h.attempts = @ + 1]]
       /\ fetchCalls' = [fetchCalls EXCEPT ![pr.key] =
                           IF concurrent[pr.key] /\ pr.op = "list"
                           THEN @ + 1 ELSE @]
       /\ UNCHANGED <<firstCall, concurrent>>
  ELSE /\ entries' = [entries EXCEPT ![pr.key] = Unlock(e)]
       /\ \E pr2 \in Returned(
                       [pr EXCEPT !.h.leftErrCount = e.errCountSinceReset],
                       NilCol,
                       IF e.lastErr = NoErr THEN ErrCacheFailure
                       ELSE e.lastErr) :
            /\ procs' = [procs EXCEPT ![p] = pr2]
            /\ concurrent' = Issued(pr2)
       /\ firstCall' = [firstCall EXCEPT ![pr.key] =
                          IF @ = "none" THEN "err" ELSE @]
       /\ UNCHANGED fetchCalls

\* cache.go:111-137: entry.mu.Lock() succeeds; hit, or discard + breaker
\* reset + first loop test
cacheGetList_Lock(p) ==
  LET pr == procs[p]
      e == entries[pr.key]
      pr0 == [pr EXCEPT !.h.evaluated = TRUE, !.h.evalCol = e.col,
                        !.h.evalErrCount = e.errCountSinceReset,
                        !.h.evalLastErr = e.lastErr,
                        !.h.evalAge = now - storedAt[pr.key],
                        !.h.evalSinceErr = now - e.lastErrTime,
                        !.h.evalHit = e.stat.hitCount]
  IN /\ pr.pc = "lock"
     /\ TryLock(e)
     /\ IF ~e.col.isNil /\ ~After(now, e.expires)
        THEN \* cache hit
             /\ entries' = [entries EXCEPT ![pr.key] =
                   [e EXCEPT !.mu = TRUE, !.stat.hitCount = @ + 1]]
             /\ procs' = [procs EXCEPT ![p] =
                   [pr0 EXCEPT !.pc = "statlock", !.path = "hit",
                               !.col = e.col]]
             /\ UNCHANGED <<fetchCalls, firstCall, concurrent>>
        ELSE LET e1 == [e EXCEPT !.col = NilCol]
                 e2 == IF BreakerElapsed(e1, now)
                       THEN [e1 EXCEPT !.errCountSinceReset = 0,
                                       !.lastErr = NoErr]
                       ELSE e1
             IN LoopOrFail(p, [pr0 EXCEPT !.round = 0], e2)
     /\ UNCHANGED <<statMutex, statCopies, now, calls, storedAt, served>>

\* cache.go:138-161: one fetch + parse attempt completes
cacheGetList_Fetch(p, out) ==
  LET pr == procs[p]
      e == entries[pr.key]
  IN /\ pr.pc = "fetch"
     /\ IF out.err # NoErr
        THEN LoopOrFail(p,
               [pr EXCEPT !.round = @ + 1, !.h.attemptErr = out.err],
               [e EXCEPT !.errCountSinceReset = @ + 1, !.lastErr = out.err,
                         !.lastErrTime = now])
        ELSE /\ entries' = [entries EXCEPT ![pr.key] =
                   [e EXCEPT !.col = out.col, !.stat.fetchCount = @ + 1]]
             /\ procs' = [procs EXCEPT ![p] =
                   [pr EXCEPT !.pc = "statlock", !.path = "fetched",
                              !.col = out.col, !.h.attemptErr = NoErr]]
             /\ UNCHANGED <<fetchCalls, firstCall, concurrent>>
     /\ UNCHANGED <<statMutex, statCopies, now, calls, storedAt, served>>

\* cache.go:186: statMutex.Lock() succeeds
cacheSetStat_Lock(p) ==
  /\ procs[p].pc = "statlock"
  /\ ~statMutex.w /\ statMutex.r = 0
  /\ statMutex' = [statMutex EXCEPT !.w = TRUE]
  /\ procs' = [procs EXCEPT ![p].pc = "statheld"]
  /\ UNCHANGED <<entries, statCopies, now, calls, Histories>>

cacheSetStat_NoHits(copies, magnitude, past, st) ==
  LET key == resolveCacheKey(magnitude, past)
  IN [k \in DOMAIN copies \cup {key} |->
        IF k = key THEN [st EXCEPT !.hitCount = 0] ELSE copies[k]]

\* cache.go:188: statCopies[resolveCacheKey(magnitude, past)] = st
cacheSetStat(copies, magnitude, past, st) ==
  LET key == resolveCacheKey(magnitude, past)
  IN [k \in DOMAIN copies \cup {key} |->
        IF k = key THEN st ELSE copies[k]]

StoreDone_KeepErrors(e, expires) == [e EXCEPT !.expires = expires]

\* cache.go:155-157: the entry after a stored fetch
StoreDone(e, expires) ==
  [e EXCEPT !.expires = expires, !.errCountSinceReset = 0,
            !.lastErr = NoErr]

\* cache.go:187-189: store the snapshot, the deferred statMutex.Unlock()
\* runs, cacheSetStat returns into cacheGetList, which still holds
\* entry.mu
cacheSetStat_Store(p) ==
  LET pr == procs[p]
      e == entries[pr.key]
  IN /\ pr.pc = "statheld"
     /\ statCopies' = cacheSetStat(statCopies, pr.magnitude, pr.past, e.stat)
     /\ statMutex' = [statMutex EXCEPT !.w = FALSE]
     /\ procs' = [procs EXCEPT ![p].pc = "statdone"]
     /\ UNCHANGED <<entries, now, calls, Histories>>

\* the rest of cacheGetList after cacheSetStat returned: 122 for a hit,
\* 155-158 for a fetched collection (time.Now() is read here), and the
\* deferred entry.mu.Unlock() of 112
cacheGetList_Return(p) ==
  LET pr == procs[p]
      e == entries[pr.key]
  IN /\ pr.pc = "statdone"
     /\ IF pr.path = "hit"
        THEN /\ entries' = [entries EXCEPT ![pr.key] = Unlock(e)]
             /\ served' = [served EXCEPT ![pr.key].hitCount = @ + 1]
             /\ UNCHANGED storedAt
        ELSE /\ entries' = [entries EXCEPT ![pr.key] =
                   Unlock(StoreDone(e,
                      Add(now, resolveMaxAge(pr.magnitude, pr.past))))]
             /\ served' = [served EXCEPT ![pr.key].fetchCount = @ + 1]
             /\ storedAt' = [storedAt EXCEPT ![pr.key] = now]
     /\ firstCall' = [firstCall EXCEPT ![pr.key] =
                        IF @ = "none" THEN "ok" ELSE @]
     /\ \E pr2 \in Returned(
                [pr EXCEPT !.h.leftErrCount =
                   IF pr.path = "hit" THEN e.errCountSinceReset ELSE 0],
                pr.col, NoErr) :
          /\ procs' = [procs EXCEPT ![p] = pr2]
          /\ concurrent' = Issued(pr2)
     /\ UNCHANGED <<statMutex, statCopies, now, calls, fetchCalls>>

\* public GetStats: a caller starts cacheGetStat(magnitude, past)
GetStats(p, magnitude, past) ==
  /\ procs[p].pc = "idle"
  /\ calls' = calls + 1
  /\ procs' = [procs EXCEPT ![p] =
        [proc0 EXCEPT !.op = "stats", !.pc = "statrlock",
                      !.magnitude = magnitude, !.past = past,
                      !.key = resolveCacheKey(magnitude, past)]]
  /\ UNCHANGED <<entries, statMutex, statCopies, now, Histories>>

\* cache.go:174: statMutex.RLock() succeeds
cacheGetStat_RLock(p) ==
  /\ procs[p].pc = "statrlock"
  /\ ~statMutex.w
  /\ statMutex' = [statMutex EXCEPT !.r = @ + 1]
  /\ procs' = [procs EXCEPT ![p].pc = "statrheld"]
  /\ UNCHANGED <<entries, statCopies, now, calls, Histories>>

\* cache.go:176-180: the value cacheGetStat returns
cacheGetStat(copies, magnitude, past) ==
  LET key == resolveCacheKey(magnitude, past)
  IN IF key \in DOMAIN copies THEN copies[key] ELSE stat0

\* cache.go:175-180: read the copy, RUnlock, return
cacheGetStat_Read(p) ==
  /\ procs[p].pc = "statrheld"
  /\ statMutex' = [statMutex EXCEPT !.r = @ - 1]
  /\ procs' = [procs EXCEPT ![p] =
        [procs[p] EXCEPT !.pc = "idle",
           !.resStat = cacheGetStat(statCopies, procs[p].magnitude,
                                    procs[p].past)]]
  /\ UNCHANGED <<entries, statCopies, now, calls, Histories>>

\* cache.go:69-73: a caller starts cacheGetById(id)
cacheGetById(p, id) ==
  /\ procs[p].pc = "idle"
  /\ calls' = calls + 1
  /\ \E pr2 \in RangeNext([proc0 EXCEPT !.op = "byid", !.id = id,
                                     !.todo = DOMAIN Past_value]) :
       /\ procs' = [procs EXCEPT ![p] = pr2]
       /\ concurrent' = Issued(pr2)
  /\ UNCHANGED <<entries, statMutex, statCopies, now,
                 fetchCalls, storedAt, served, firstCall>>

\* the clock advances by d minutes
Tick(d) ==
  /\ now' = now + d
  /\ UNCHANGED <<entries, statMutex, statCopies, procs, calls, Histories>>

(* --------------------------- specifications --------------------------- *)
\* concurrent callers of GetCollection and GetStats, minute ticks
Next ==
  \/ /\ calls < MaxCalls
     /\ \E p \in 1..NumProcs : \E a \in CallArgs : GetCollection(p, a[1], a[2])
  \/ /\ calls < MaxCalls
     /\ \E p \in 1..NumProcs : \E a \in CallArgs : GetStats(p, a[1], a[2])
  \/ \E p \in 1..NumProcs : cacheGetList_Lock(p)
  \/ \E p \in 1..NumProcs : \E out \in Upstream : cacheGetList_Fetch(p, out)
  \/ \E p \in 1..NumProcs : cacheSetStat_Lock(p)
  \/ \E p \in 1..NumProcs : cacheSetStat_Store(p)
  \/ \E p \in 1..NumProcs : cacheGetList_Return(p)
  \/ \E p \in 1..NumProcs : cacheGetStat_RLock(p)
  \/ \E p \in 1..NumProcs : cacheGetStat_Read(p)
  \/ \E t \in Instants : t > now /\ Tick(t - now)

Spec == Init /\ [][Next]_vars

\* callers contending for one key, at one instant
NextFair ==
  \/ /\ calls < MaxFairCalls
     /\ \E p \in 1..NumFairProcs :
          GetCollection(p, Magnitude_MAGNITUDE_ALL, Past_PAST_HOUR)
  \/ \E p \in 1..NumFairProcs : cacheGetList_Lock(p)
  \/ \E p \in 1..NumFairProcs : \E out \in BreakerUpstream :
       cacheGetList_Fetch(p, out)
  \/ \E p \in 1..NumFairProcs : cacheSetStat_Lock(p)
  \/ \E p \in 1..NumFairProcs : cacheSetStat_Store(p)
  \/ \E p \in 1..NumFairProcs : cacheGetList_Return(p)

\* the next step of an unfinished call of p in NextFair
FairStep(p) ==
  \/ cacheGetList_Lock(p)
  \/ \E out \in BreakerUpstream : cacheGetList_Fetch(p, out)
  \/ cacheSetStat_Lock(p)
  \/ cacheSetStat_Store(p)
  \/ cacheGetList_Return(p)

\* the scheduling assumptions: a caller that can again and again take a
\* mutex gets it (sync.Mutex hands over to a starving waiter), an upstream
\* call returns, and a caller between two statements goes on
Fairness == \A p \in 1..NumFairProcs : SF_vars(FairStep(p))

SpecFair == Init /\ [][NextFair]_vars /\ Fairness

\* calls on one key around the expiry of its collection
NextTTL ==
  \/ /\ calls < MaxTTLCalls
     /\ \E p \in 1..NumTTLProcs :
          GetCollection(p, Magnitude_MAGNITUDE_ALL, Past_PAST_HOUR)
  \/ \E p \in 1..NumTTLProcs : cacheGetList_Lock(p)
  \/ \E p \in 1..NumTTLProcs : \E out \in Upstream :
       cacheGetList_Fetch(p, out)
  \/ \E p \in 1..NumTTLProcs : cacheSetStat_Lock(p)
  \/ \E p \in 1..NumTTLProcs : cacheSetStat_Store(p)
  \/ \E p \in 1..NumTTLProcs : cacheGetList_Return(p)
  \/ \E t \in TTLInstants : t > now /\ Tick(t - now)

SpecTTL == Init /\ [][NextTTL]_vars

\* repeated calls on one key over more than a cooldown
NextBreaker ==
  \/ /\ calls < MaxBreakerCalls
     /\ \E p \in 1..NumBreakerProcs :
          GetCollection(p, Magnitude_MAGNITUDE_ALL, Past_PAST_HOUR)
  \/ \E p \in 1..NumBreakerProcs : cacheGetList_Lock(p)
  \/ \E p \in 1..NumBreakerProcs : \E out \in BreakerUpstream :
       cacheGetList_Fetch(p, out)
  \/ \E p \in 1..NumBreakerProcs : cacheSetStat_Lock(p)
  \/ \E p \in 1..NumBreakerProcs : cacheSetStat_Store(p)
  \/ \E p \in 1..NumBreakerProcs : cacheGetList_Return(p)
  \/ \E t \in BreakerInstants : t > now /\ Tick(t - now)

SpecBreaker == Init /\ [][NextBreaker]_vars

\* every way a call can fail: calls on a key of the store and on an
\* unknown pair, over more than a cooldown
NextFailures ==
  \/ /\ calls < MaxFailCalls
     /\ \E p \in 1..NumFailProcs : \E a \in CallArgs :
          GetCollection(p, a[1], a[2])
  \/ \E p \in 1..NumFailProcs : cacheGetList_Lock(p)
  \/ \E p \in 1..NumFailProcs : \E out \in BreakerUpstream :
       cacheGetList_Fetch(p, out)
  \/ \E p \in 1..NumFailProcs : cacheSetStat_Lock(p)
  \/ \E p \in 1..NumFailProcs : cacheSetStat_Store(p)
  \/ \E p \in 1..NumFailProcs : cacheGetList_Return(p)
  \/ \E t \in FailInstants : t > now /\ Tick(t - now)

SpecFailures == Init /\ [][NextFailures]_vars

\* one caller of GetById (its cacheGetList calls are serialized with
\* those of other callers by the entry locks, as in Spec)
NextById ==
  \/ /\ calls < MaxByIdCalls
     /\ \E id \in Ids : cacheGetById(1, id)
  \/ cacheGetList_Lock(1)
  \/ \E out \in ByIdUpstream(procs[1].past) : cacheGetList_Fetch(1, out)
  \/ cacheSetStat_Lock(1)
  \/ cacheSetStat_Store(1)
  \/ cacheGetList_Return(1)

SpecById == Init /\ [][NextById]_vars

\* a GetById caller beside callers of GetCollection and GetStats on two
\* keys, at one instant
NextLocks ==
  \/ /\ calls < MaxLockCalls
     /\ \E id \in Ids : cacheGetById(1, id)
  \/ /\ calls < MaxLockCalls
     /\ \E p \in 2..NumLockProcs : \E a \in LockArgs :
          GetCollection(p, a[1], a[2])
  \/ /\ calls < MaxLockCalls
     /\ \E p \in 2..NumLockProcs : \E a \in LockArgs :
          GetStats(p, a[1], a[2])
  \/ \E p \in 1..NumLockProcs : cacheGetList_Lock(p)
  \/ \E p \in 1..NumLockProcs : \E out \in LocksUpstream(procs[p].past) :
       cacheGetList_Fetch(p, out)
  \/ \E p \in 1..NumLockProcs : cacheSetStat_Lock(p)
  \/ \E p \in 1..NumLockProcs : cacheSetStat_Store(p)
  \/ \E p \in 1..NumLockProcs : cacheGetList_Return(p)
  \/ \E p \in 1..NumLockProcs : cacheGetStat_RLock(p)
  \/ \E p \in 1..NumLockProcs : cacheGetStat_Read(p)

SpecLocks == Init /\ [][NextLocks]_vars

(* ------------------------------ claims -------------------------------- *)
HourKey == resolveCacheKey(Magnitude_MAGNITUDE_ALL, Past_PAST_HOUR)

\* callers between entry.mu.Lock() and the deferred Unlock() of key k
Holders(k) ==
  {p \in Procs :
     /\ procs[p].pc \in {"fetch", "statlock", "statheld", "statdone"}
     /\ procs[p].key = k}

\* callers whose upstream fetch for key k is in flight
InFlight(k) == {p \in Procs : procs[p].pc = "fetch" /\ procs[p].key = k}

\* the last cacheGetList call of p is a finished public GetCollection call
\* on a key of the entry store
DoneList(p) ==
  /\ procs[p].pc = "idle"
  /\ procs[p].op = "list"
  /\ procs[p].h.evaluated

\* C1: for each key at most one call is between Lock and Unlock, so at
\* most one upstream fetch for the key is in flight, and the mutex is held
\* exactly when some call is in that section
C1_SingleFlight ==
  \A k \in Keys :
    /\ Cardinality(Holders(k)) <= 1
    /\ Cardinality(InFlight(k)) <= 1
    /\ entries[k].mu <=> Holders(k) # {}

\* a fetch is in flight while another caller waits for the same lock
C1_Witness ==
  \E p, q \in Procs :
    /\ procs[p].pc = "fetch"
    /\ procs[q].pc = "lock"
    /\ procs[q].key = procs[p].key

\* C2 as stated: concurrent calls on a cold key start at most
\* maxTriesForRequest upstream fetches in total, whatever the outcomes
C2_ColdFetchBound ==
  \A k \in Keys : fetchCalls[k] <= maxTriesForRequest

\* C2 amended: every call starts at most maxTriesForRequest fetches of its
\* own, and concurrent calls on a cold key start at most maxTriesForRequest
\* in total when the first call to hold the lock obtained a collection and
\* that collection is still the cached one
C2_ColdFetchBoundAfterSuccess ==
  /\ \A p \in Procs : procs[p].h.attempts <= maxTriesForRequest
  /\ \A k \in Keys :
       (/\ firstCall[k] = "ok"
        /\ entries[k].stat.fetchCount = 1
        /\ ~entries[k].col.isNil)
       => fetchCalls[k] <= maxTriesForRequest

\* the first call needed all three attempts, a concurrent one got a hit
C2_Witness ==
  /\ firstCall[HourKey] = "ok"
  /\ concurrent[HourKey]
  /\ fetchCalls[HourKey] = maxTriesForRequest
  /\ served[HourKey] = [fetchCount |-> 1, hitCount |-> 1]

\* C3: a call that finds a collection stored at T, at a time before
\* T + resolveMaxAge, is a hit (no fetch, hitCount + 1, the cached
\* collection returned); at a time after T + resolveMaxAge it discards
\* the collection and starts at least one fetch
C3_TTLRespected ==
  \A p \in Procs :
    LET pr == procs[p]
        maxAge == resolveMaxAge(pr.magnitude, pr.past)
    IN (pr.h.evaluated /\ ~pr.h.evalCol.isNil) =>
         /\ pr.h.evalAge < maxAge =>
              /\ pr.h.attempts = 0
              /\ pr.pc \in {"statlock", "statheld", "statdone"} =>
                   /\ pr.path = "hit"
                   /\ pr.col = pr.h.evalCol
                   /\ entries[pr.key].stat.hitCount = pr.h.evalHit + 1
              /\ pr.pc = "idle" =>
                   pr.resCol = pr.h.evalCol /\ pr.resErr = NoErr
         /\ pr.h.evalAge > maxAge =>
              /\ pr.h.attempts >= 1
              /\ pr.pc = "fetch" => entries[pr.key].col.isNil

\* after a hit had been served, a call one minute after the expiry
\* fetched again
C3_Witness ==
  \E q \in Procs :
    /\ served[HourKey].hitCount >= 1
    /\ DoneList(q) /\ ~procs[q].h.evalCol.isNil
    /\ procs[q].h.evalAge =
         resolveMaxAge(procs[q].magnitude, procs[q].past) + 1
    /\ procs[q].h.attempts >= 1

\* a call one minute before the expiry was served from the cache
C3_HitWitness ==
  \E p \in Procs :
    /\ DoneList(p) /\ ~procs[p].h.evalCol.isNil
    /\ procs[p].h.evalAge + 1 =
         resolveMaxAge(procs[p].magnitude, procs[p].past)
    /\ procs[p].h.attempts = 0
    /\ procs[p].resCol = procs[p].h.evalCol

\* C4: a call that found no valid collection and a zero error count, and
\* whose attempts all failed, made exactly maxTriesForRequest attempts,
\* returned the error of the last one and left the error count at 3
C4_RetryBound ==
  \A p \in Procs :
    (/\ DoneList(p)
     /\ procs[p].h.evalErrCount = 0
     /\ procs[p].resErr # NoErr)
    => /\ procs[p].h.attempts = maxTriesForRequest
       /\ procs[p].resErr = procs[p].h.attemptErr
       /\ procs[p].h.leftErrCount = maxTriesForRequest
       /\ procs[p].resCol.isNil

\* a call failed three times, the last time with another error than before
C4_Witness ==
  \E p \in Procs :
    /\ DoneList(p)
    /\ procs[p].h.evalErrCount = 0
    /\ procs[p].h.attempts = maxTriesForRequest
    /\ procs[p].resErr = "parse error"
    /\ procs[p].h.leftErrCount = maxTriesForRequest

\* C5: a call that finds the error count at maxErrorsTotal no later than
\* waitBeforeReset after lastErrTime returns the stored last error and
\* starts no fetch
C5_BreakerOpen ==
  \A p \in Procs :
    (/\ procs[p].h.evaluated
     /\ procs[p].h.evalErrCount >= maxErrorsTotal
     /\ procs[p].h.evalSinceErr <= waitBeforeReset)
    => /\ procs[p].pc = "idle"
       /\ procs[p].h.attempts = 0
       /\ procs[p].resErr = procs[p].h.evalLastErr
       /\ procs[p].resErr # NoErr
       /\ procs[p].resCol.isNil
       /\ procs[p].h.leftErrCount = procs[p].h.evalErrCount

\* a call was rejected exactly waitBeforeReset after the last failure
C5_Witness ==
  \E p \in Procs :
    /\ DoneList(p)
    /\ procs[p].h.evalErrCount = maxErrorsTotal
    /\ procs[p].h.evalSinceErr = waitBeforeReset
    /\ procs[p].h.attempts = 0
    /\ procs[p].resErr = "fetch error"

\* C6 as stated: a call on a tripped key at a time now >= lastErrTime +
\* waitBeforeReset starts a fresh fetch attempt
C6_AutoHealAtCooldown ==
  \A p \in Procs :
    (/\ procs[p].h.evaluated
     /\ procs[p].h.evalErrCount >= maxErrorsTotal
     /\ procs[p].h.evalSinceErr >= waitBeforeReset)
    => procs[p].h.attempts >= 1

\* C6 amended: a call on a tripped key at a time now > lastErrTime +
\* waitBeforeReset clears the counter and the last error, starts a fresh
\* attempt in the same call, and when that attempt succeeds returns the
\* collection with the error count at 0
C6_AutoHealAfterCooldown ==
  \A p \in Procs :
    LET pr == procs[p]
    IN (/\ pr.h.evaluated
        /\ pr.h.evalErrCount >= maxErrorsTotal
        /\ pr.h.evalSinceErr > waitBeforeReset)
       => /\ pr.h.attempts >= 1
          /\ (pr.pc = "fetch" /\ pr.round = 0) =>
               /\ entries[pr.key].errCountSinceReset = 0
               /\ entries[pr.key].lastErr = NoErr
          /\ (pr.pc = "idle" /\ pr.h.attempts = 1
                 /\ pr.h.attemptErr = NoErr) =>
               /\ pr.resErr = NoErr
               /\ ~pr.resCol.isNil
               /\ pr.h.leftErrCount = 0

\* a call one minute after the cooldown healed the key with one fetch
C6_Witness ==
  \E p \in Procs :
    /\ DoneList(p)
    /\ procs[p].h.evalErrCount = maxErrorsTotal
    /\ procs[p].h.evalSinceErr = waitBeforeReset + 1
    /\ procs[p].h.attempts = 1
    /\ procs[p].resErr = NoErr
    /\ entries[procs[p].key].errCountSinceReset = 0

\* every (magnitude, past) pair a caller can pass
AllArgs ==
  {<<Magnitude_value[m], Past_value[pa]>> :
     m \in DOMAIN Magnitude_value, pa \in DOMAIN Past_value} \cup CallArgs

\* C7: while no call holds the lock of a key, cacheGetStat gives the
\* entry's own counters, which are the numbers of fetched collections and
\* of hits returned so far; it gives {0,0} for a key never served and for
\* a key outside the entry store
C7_StatsAccuracy ==
  /\ \A a \in AllArgs :
       LET k == resolveCacheKey(a[1], a[2])
           st == cacheGetStat(statCopies, a[1], a[2])
       IN IF k \in Keys
          THEN ~entries[k].mu => st = entries[k].stat /\ st = served[k]
          ELSE st = stat0
  /\ \A p \in Procs :
       (procs[p].op = "stats" /\ procs[p].pc = "idle"
          /\ procs[p].key \notin Keys) => procs[p].resStat = stat0

\* after one fetch and one hit, with the lock free, cacheGetStat gives
\* {1,1}
C7_Witness ==
  /\ served[HourKey] = [fetchCount |-> 1, hitCount |-> 1]
  /\ ~entries[HourKey].mu
  /\ cacheGetStat(statCopies, Magnitude_MAGNITUDE_ALL, Past_PAST_HOUR) =
       [fetchCount |-> 1, hitCount |-> 1]

\* GetStats returned {1,0} while the call that fetched the collection
\* has stored the snapshot but still holds the entry lock
C7_EarlyReadWitness ==
  \E p, q \in Procs :
    /\ procs[p].pc = "statdone" /\ procs[p].path = "fetched"
    /\ entries[procs[p].key].mu
    /\ procs[q].op = "stats" /\ procs[q].pc = "idle"
    /\ procs[q].key = procs[p].key
    /\ procs[q].resStat = [fetchCount |-> 1, hitCount |-> 0]
    /\ served[procs[p].key] = stat0

\* the windows from the narrowest to the widest
WindowOrder ==
  <<Past_PAST_HOUR, Past_PAST_DAY, Past_PAST_7DAYS, Past_PAST_30DAYS>>

\* C8: cacheGetById queries the windows in the order hour, day, 7 days,
\* 30 days: its i-th GetCollection call is on the i-th window
C8_WindowOrder ==
  \A p \in Procs :
    procs[p].op = "byid" =>
      /\ \A i \in 1..Len(procs[p].trace) :
           procs[p].trace[i].past = WindowOrder[i]
      /\ procs[p].pc # "idle" =>
           procs[p].past = WindowOrder[Len(procs[p].trace) + 1]

\* C9: cacheGetById calls cacheGetList with MAGNITUDE_ALL and a window
\* other than the unspecified one; the first returned collection holding
\* the id ends the call with that record, whatever failed before
C9_ShortCircuit ==
  \A p \in Procs :
    LET pr == procs[p]
    IN pr.op = "byid" =>
         /\ pr.pc # "idle" =>
              /\ pr.magnitude = Magnitude_MAGNITUDE_ALL
              /\ pr.past # Past_PAST_UNSPECIFIED
              /\ pr.key \in Keys
         /\ \A i \in 1..Len(pr.trace) :
              /\ pr.trace[i].past # Past_PAST_UNSPECIFIED
              /\ pr.trace[i].found =>
                   /\ i = Len(pr.trace)
                   /\ pr.pc = "idle"
                   /\ pr.resErr = NoErr
                   /\ pr.resEq = Earthquake(pr.id)

\* the id was found in the second window after the first one had failed,
\* and the other two windows were not queried
C9_Witness ==
  \E p \in Procs :
    /\ procs[p].op = "byid" /\ procs[p].pc = "idle"
    /\ Len(procs[p].trace) = 2
    /\ procs[p].trace[1].err # NoErr
    /\ procs[p].trace[2].found
    /\ procs[p].resEq = Earthquake("eq42")

\* no window of a finished cacheGetById call held the id
NoMatch(pr) ==
  /\ pr.op = "byid" /\ pr.pc = "idle"
  /\ \A i \in 1..Len(pr.trace) : ~pr.trace[i].found

\* C10: when no window holds the id, all four windows were queried, the
\* result is ErrNotFound exactly when every window succeeded, and else
\* the error of the last window that failed
C10_FailureOutcome ==
  \A p \in Procs :
    LET pr == procs[p]
        failed == {i \in 1..Len(pr.trace) : pr.trace[i].err # NoErr}
    IN NoMatch(pr) =>
         /\ {pr.trace[i].past : i \in 1..Len(pr.trace)} =
              {WindowOrder[i] : i \in 1..Len(WindowOrder)}
         /\ Len(pr.trace) = Len(WindowOrder)
         /\ pr.resEq.isNil
         /\ pr.resErr = ErrNotFound <=> failed = {}
         /\ failed # {} =>
              pr.resErr = pr.trace[CHOOSE i \in failed :
                                     \A j \in failed : j <= i].err

\* two windows failed, a later one succeeded without a match, and the
\* error of the later failure was returned
C10_Witness ==
  \E p \in Procs :
    /\ NoMatch(procs[p])
    /\ Len(procs[p].trace) = 4
    /\ procs[p].trace[1].err # NoErr
    /\ procs[p].trace[3].err # NoErr
    /\ procs[p].trace[3].err # procs[p].trace[1].err
    /\ procs[p].trace[4].err = NoErr
    /\ procs[p].resErr = procs[p].trace[3].err

\* a finished cacheGetById call in which every window succeeded
C10_NotFoundWitness ==
  \E p \in Procs :
    /\ NoMatch(procs[p])
    /\ procs[p].resErr = ErrNotFound

\* p's last call was GetCollection on a pair whose key init() never made
UnknownList(pr) == pr.op = "list" /\ pr.key \notin Keys

\* C11: GetCollection on a pair outside the enumerated domain returns
\* ErrCacheFailure having locked and fetched nothing, the step changes no
\* entry, not the stats mutex and not the mirror; the key set stays the
\* one init() built, and cacheGetStat of such a pair gives {0,0}
C11_UnknownKey ==
  /\ [](/\ DOMAIN entries = Keys
        /\ DOMAIN statCopies \subseteq Keys
        /\ \A p \in Procs :
             /\ UnknownList(procs[p]) =>
                  /\ procs[p].pc = "idle"
                  /\ procs[p].resErr = ErrCacheFailure
                  /\ procs[p].resCol.isNil
                  /\ procs[p].h.attempts = 0
                  /\ ~procs[p].h.evaluated
             /\ (procs[p].op = "stats" /\ procs[p].pc = "idle"
                   /\ procs[p].key \notin Keys) => procs[p].resStat = stat0
        /\ \A a \in CallArgs :
             resolveCacheKey(a[1], a[2]) \notin Keys =>
               cacheGetStat(statCopies, a[1], a[2]) = stat0)
  /\ [][(\E p \in Procs :
           /\ calls' # calls
           /\ procs[p].pc = "idle"
           /\ UnknownList(procs'[p])
           /\ \A q \in Procs \ {p} : procs'[q] = procs[q])
        => UNCHANGED <<entries, statMutex, statCopies, fetchCalls>>]_vars

\* a call on an unknown pair returned ErrCacheFailure while another
\* caller's fetch on a key of the store was in flight
C11_Witness ==
  \E p, q \in Procs :
    /\ UnknownList(procs[p])
    /\ procs[p].pc = "idle" /\ procs[p].resErr = ErrCacheFailure
    /\ procs[q].pc = "fetch" /\ entries[procs[q].key].mu

\* cacheGetStat on an unknown pair returned after a collection was served
C11_StatsWitness ==
  \E p \in Procs :
    /\ procs[p].op = "stats" /\ procs[p].pc = "idle"
    /\ procs[p].key \notin Keys
    /\ procs[p].resStat = stat0
    /\ served[HourKey].fetchCount = 1

\* callers inside the section guarded by some entry lock
InSection ==
  {p \in Procs :
     procs[p].pc \in {"fetch", "statlock", "statheld", "statdone"}}

\* callers holding the stats mutex as writer, as reader
StatWriters == {p \in Procs : procs[p].pc = "statheld"}
StatReaders == {p \in Procs : procs[p].pc = "statrheld"}

\* the next step of an unfinished call of p in SpecLocks
LocksStep(p) ==
  \/ cacheGetList_Lock(p)
  \/ \E out \in LocksUpstream(procs[p].past) : cacheGetList_Fetch(p, out)
  \/ cacheSetStat_Lock(p)
  \/ cacheSetStat_Store(p)
  \/ cacheGetList_Return(p)
  \/ cacheGetStat_RLock(p)
  \/ cacheGetStat_Read(p)

\* C12: every locked entry has exactly one caller in its section and there
\* are as many locked entries as callers in a section (no caller keeps a
\* lock of an earlier call, also not GetById from an earlier window); the
\* stats mutex is write-held only by a caller inside its entry's section
\* (so it is released before the entry lock),
\* read-held only by GetStats callers, which hold no entry lock; all
\* holders of the stats mutex are past their entry lock; and while some
\* call is unfinished some call can take a step
C12_LockDiscipline ==
  /\ \A k \in Keys :
       /\ Cardinality(Holders(k)) <= 1
       /\ entries[k].mu <=> Holders(k) # {}
  /\ Cardinality({k \in Keys : entries[k].mu}) = Cardinality(InSection)
  /\ Cardinality(StatWriters) <= 1
  /\ statMutex.w <=> StatWriters # {}
  /\ statMutex.r = Cardinality(StatReaders)
  /\ ~(statMutex.w /\ statMutex.r > 0)
  /\ \A p \in StatWriters : entries[procs[p].key].mu
  /\ \A p \in Procs :
       procs[p].pc \in {"statrlock", "statrheld"} => procs[p].op = "stats"
  /\ \A p \in Procs :
       procs[p].pc = "lock" => p \notin StatWriters \cup StatReaders
  /\ (\E p \in Procs : procs[p].pc # "idle") =>
       ENABLED (\E p \in Procs : LocksStep(p))

\* GetById, past its first window, is in the fetch of a later window
\* while the other caller waits for the lock of that same entry
C12_Witness ==
  \E p, q \in Procs :
    /\ procs[p].op = "byid" /\ Len(procs[p].trace) >= 1
    /\ procs[p].pc = "fetch"
    /\ procs[q].op = "list" /\ procs[q].pc = "lock"
    /\ procs[q].key = procs[p].key
    /\ Cardinality({k \in Keys : entries[k].mu}) = 1

\* a GetStats caller holds the stats mutex while GetById, inside an entry
\* section, waits for it
C12_StatsWitness ==
  \E p, q \in Procs :
    /\ procs[p].op = "byid" /\ procs[p].pc = "statlock"
    /\ procs[q].pc = "statrheld"

\* GetById has released the stats mutex and still holds the entry lock,
\* and a GetStats caller has taken the stats mutex meanwhile
C12_ReleaseWitness ==
  \E p, q \in Procs :
    /\ procs[p].op = "byid" /\ procs[p].pc = "statdone"
    /\ entries[procs[p].key].mu
    /\ procs[q].pc = "statrheld"

\* C13: under SpecFair every started call returns (so a caller waiting
\* for a lock gets past it); a returned GetCollection call gave a
\* collection or else an error, and no call makes more than
\* maxTriesForRequest fetch attempts
C13_Termination ==
  /\ \A p \in Procs : (procs[p].pc # "idle") ~> (procs[p].pc = "idle")
  /\ \A p \in Procs : (procs[p].pc = "lock") ~> (procs[p].pc # "lock")
  /\ [](\A p \in Procs :
          /\ procs[p].h.attempts <= maxTriesForRequest
          /\ (procs[p].op = "list" /\ procs[p].pc = "idle") =>
               (procs[p].resErr = NoErr <=> ~procs[p].resCol.isNil))

\* a call returned an error after three attempts and a call issued
\* before that return, which had to wait for the lock, is now fetching
C13_Witness ==
  \E p, q \in Procs :
    /\ DoneList(p)
    /\ procs[p].h.attempts = maxTriesForRequest
    /\ procs[p].resErr # NoErr
    /\ procs[q].pc = "fetch"
    /\ procs[q].key = procs[p].key
    /\ concurrent[procs[p].key]

\* the call of pr found a collection when it got the lock
FoundCol(pr) == pr.h.evaluated /\ ~pr.h.evalCol.isNil

\* the call of pr was, or is being, answered from the cache: no fetch,
\* the found collection handed back
IsHit(pr) ==
  /\ pr.h.attempts = 0
  /\ pr.pc \in {"statlock", "statheld", "statdone"} =>
       pr.path = "hit" /\ pr.col = pr.h.evalCol
  /\ pr.pc = "idle" => pr.resCol = pr.h.evalCol /\ pr.resErr = NoErr

\* C14 as stated: a call evaluated at now >= expires (the collection's
\* age is resolveMaxAge or more) is not a hit: it goes to the fetch path
C14_ExpiredAtBoundary ==
  \A p \in Procs :
    LET pr == procs[p]
    IN (FoundCol(pr)
          /\ pr.h.evalAge >= resolveMaxAge(pr.magnitude, pr.past))
       => pr.h.attempts >= 1

\* C14 amended: a found collection is a hit while now <= expires, the
\* instant now = expires included, and is discarded for the fetch path
\* only when now > expires
C14_ExpiryBoundary ==
  \A p \in Procs :
    LET pr == procs[p]
        maxAge == resolveMaxAge(pr.magnitude, pr.past)
    IN FoundCol(pr) =>
         /\ pr.h.evalAge <= maxAge => IsHit(pr)
         /\ pr.h.evalAge > maxAge =>
              /\ pr.h.attempts >= 1
              /\ pr.path # "hit"

\* a call evaluated exactly at now = expires returned the cached
\* collection without a fetch
C14_Witness ==
  \E p \in Procs :
    /\ DoneList(p) /\ FoundCol(procs[p])
    /\ procs[p].h.evalAge =
         resolveMaxAge(procs[p].magnitude, procs[p].past)
    /\ procs[p].h.attempts = 0
    /\ procs[p].resCol = procs[p].h.evalCol
    /\ served[procs[p].key].hitCount >= 1

Min(a, b) == IF a <= b THEN a ELSE b

\* the error count with which the call of pr reached the retry loop: the
\* count it found, or 0 when it found the breaker tripped and cooled down
LoopEntryCount(pr) ==
  IF /\ pr.h.evalErrCount >= maxErrorsTotal
     /\ pr.h.evalSinceErr > waitBeforeReset
  THEN 0
  ELSE pr.h.evalErrCount

\* C15: the error count stays within 0..maxErrorsTotal, no fetch is in
\* flight with the count at maxErrorsTotal, and a call that reached the
\* retry loop with count c and failed made min(maxTriesForRequest,
\* maxErrorsTotal - c) attempts
C15_BreakerMidLoop ==
  /\ \A k \in Keys :
       /\ entries[k].errCountSinceReset >= 0
       /\ entries[k].errCountSinceReset <= maxErrorsTotal
  /\ \A p \in Procs :
       procs[p].pc = "fetch" =>
         entries[procs[p].key].errCountSinceReset < maxErrorsTotal
  /\ \A p \in Procs :
       (DoneList(p) /\ procs[p].resErr # NoErr) =>
         /\ procs[p].h.attempts =
              Min(maxTriesForRequest,
                  maxErrorsTotal - LoopEntryCount(procs[p]))
         /\ procs[p].h.leftErrCount =
              LoopEntryCount(procs[p]) + procs[p].h.attempts

\* the fourth failing call in a row: it found the count at 9, made one
\* attempt and left the count at 10
C15_Witness ==
  \E p \in Procs :
    /\ DoneList(p) /\ procs[p].resErr # NoErr
    /\ procs[p].h.evalErrCount = maxErrorsTotal - 1
    /\ procs[p].h.attempts = 1
    /\ procs[p].h.leftErrCount = maxErrorsTotal
    /\ entries[procs[p].key].errCountSinceReset = maxErrorsTotal

\* the fifth failing call in a row made no attempt
C15_TrippedWitness ==
  \E p \in Procs :
    /\ DoneList(p) /\ procs[p].resErr # NoErr
    /\ procs[p].h.evalErrCount = maxErrorsTotal
    /\ procs[p].h.attempts = 0
    /\ calls >= 5

\* the mirror's snapshot of key k, {0,0} while there is none
StatOf(copies, k) == IF k \in DOMAIN copies THEN copies[k] ELSE stat0

\* new is old with exactly one of the two counters one higher
PlusOne(old, new) ==
  \/ new = [old EXCEPT !.fetchCount = @ + 1]
  \/ new = [old EXCEPT !.hitCount = @ + 1]

\* this step is a step of caller p alone (a call that returns at once
\* with the result the caller already had changes only the call count)
StepBy(p) ==
  /\ procs'[p] # procs[p] \/ (calls' # calls /\ procs[p].pc = "idle")
  /\ \A q \in Procs \ {p} : procs'[q] = procs[q]

\* the keys whose entry counters, whose snapshot change in this step
Counted == {k \in Keys : entries'[k].stat # entries[k].stat}
Copied == {k \in Keys : StatOf(statCopies', k) # StatOf(statCopies, k)}

\* no entry counter and no snapshot changes in this step
StatsUnchanged ==
  /\ entries' = entries \/ Counted = {}
  /\ statCopies' = statCopies

\* C16: a step of a call that is not on its way to return a collection,
\* and so every step of a call that returns an error, changes no entry
\* counter and no snapshot; a step that changes the counters of an entry
\* adds one to one counter of one key and is the hit or the successful
\* fetch of a call on that key; the snapshot of a key changes only to the
\* entry's counters, by one, when that call stores it; the call then
\* goes on, still holding the entry lock, and its next step returns
\* without error and changes no counter and no snapshot; counters and
\* snapshots never decrease
C16_FailuresKeepStats ==
  [][/\ \A p \in Procs :
          (StepBy(p) /\ procs'[p].path = "none" /\ procs[p].path = "none")
            => StatsUnchanged
     /\ \A p \in Procs :
          (StepBy(p) /\ procs'[p].op = "list" /\ procs'[p].pc = "idle"
             /\ procs'[p].resErr # NoErr) => StatsUnchanged
     /\ entries' # entries =>
          \A k \in Counted :
            /\ PlusOne(entries[k].stat, entries'[k].stat)
            /\ Counted = {k}
            /\ \E p \in Procs :
                 /\ StepBy(p)
                 /\ procs[p].pc \in {"lock", "fetch"}
                 /\ procs[p].key = k
                 /\ procs'[p].pc = "statlock"
                 /\ procs'[p].path \in {"hit", "fetched"}
     /\ \A p \in Procs :
          (StepBy(p) /\ procs[p].pc = "statheld") =>
            /\ StatOf(statCopies', procs[p].key) = entries[procs[p].key].stat
            /\ PlusOne(StatOf(statCopies, procs[p].key),
                       StatOf(statCopies', procs[p].key))
            /\ Copied = {procs[p].key}
            /\ procs'[p].pc = "statdone"
            /\ entries' = entries
     /\ \A p \in Procs :
          (StepBy(p) /\ procs[p].pc = "statdone") =>
            /\ StatsUnchanged
            /\ ~entries'[procs[p].key].mu
            /\ procs'[p].op = "list" =>
                 procs'[p].pc = "idle" /\ procs'[p].resErr = NoErr
     /\ statCopies' # statCopies =>
          /\ \E p \in Procs : StepBy(p) /\ procs[p].pc = "statheld"
          /\ \A k \in Copied :
               /\ StatOf(statCopies', k).fetchCount >=
                    StatOf(statCopies, k).fetchCount
               /\ StatOf(statCopies', k).hitCount >=
                    StatOf(statCopies, k).hitCount
     /\ entries' # entries =>
          \A k \in Counted :
            /\ entries'[k].stat.fetchCount >= entries[k].stat.fetchCount
            /\ entries'[k].stat.hitCount >= entries[k].stat.hitCount
    ]_vars

\* after one fetch and one hit a call exhausted its attempts, and the
\* entry's counters and the snapshot are still {1,1}
C16_Witness ==
  \E p \in Procs :
    /\ DoneList(p) /\ procs[p].resErr # NoErr
    /\ procs[p].h.attempts = maxTriesForRequest
    /\ procs[p].key = HourKey
    /\ served[HourKey] = [fetchCount |-> 1, hitCount |-> 1]
    /\ entries[HourKey].stat = served[HourKey]
    /\ StatOf(statCopies, HourKey) = served[HourKey]

\* a call rejected by the open breaker, after a collection was served
C16_RejectedWitness ==
  \E p \in Procs :
    /\ DoneList(p) /\ procs[p].resErr # NoErr
    /\ procs[p].h.evalErrCount = maxErrorsTotal
    /\ procs[p].h.attempts = 0

\* C17: a caller waiting for the lock of a key that nobody holds can take
\* it, whatever other keys are locked for a fetch, and a fetch in flight
\* can complete whatever else is locked; a step of a call changes no
\* entry but the one of its own key
C17_KeyIndependence ==
  /\ [](\A q \in Procs :
          /\ (procs[q].pc = "lock" /\ Holders(procs[q].key) = {})
               => ENABLED cacheGetList_Lock(q)
          /\ procs[q].pc = "fetch" =>
               ENABLED (\E out \in LocksUpstream(procs[q].past) :
                          cacheGetList_Fetch(q, out)))
  /\ [][\A p \in Procs :
          StepBy(p) =>
            \A k \in Keys \ {procs[p].key} : entries'[k] = entries[k]]_vars

\* upstream fetches for two different keys are in flight at once
C17_Witness ==
  \E p, q \in Procs :
    /\ procs[p].pc = "fetch" /\ procs[q].pc = "fetch"
    /\ procs[p].key # procs[q].key
    /\ entries[procs[p].key].mu /\ entries[procs[q].key].mu

\* a caller waits for a free lock while another key is locked for a fetch
C17_WaitWitness ==
  \E p, q \in Procs :
    /\ procs[p].pc = "fetch" /\ procs[q].pc = "lock"
    /\ procs[p].key # procs[q].key
    /\ ~entries[procs[q].key].mu

\* C18: an unlocked entry with a collection has error count 0 and no last
\* error; a step that records a failure (count, last error or its time)
\* is on an entry without a collection; and a GetCollection call that
\* returns a collection leaves the count at 0 and the last error cleared
C18_ErrorsExcludeData ==
  /\ [](\A k \in Keys :
          (~entries[k].mu /\ ~entries[k].col.isNil) =>
            /\ entries[k].errCountSinceReset = 0
            /\ entries[k].lastErr = NoErr)
  /\ [][/\ entries' # entries =>
            \A k \in Keys :
              (\/ entries'[k].errCountSinceReset >
                    entries[k].errCountSinceReset
               \/ entries'[k].lastErrTime # entries[k].lastErrTime
               \/ entries'[k].lastErr \notin {entries[k].lastErr, NoErr})
              => entries[k].col.isNil /\ entries'[k].col.isNil
       /\ \A p \in Procs :
            (/\ StepBy(p)
             /\ procs[p].pc # "idle" /\ procs'[p].pc = "idle"
             /\ procs'[p].op = "list" /\ procs'[p].resErr = NoErr)
            => /\ ~procs'[p].resCol.isNil
               /\ entries'[procs'[p].key].col = procs'[p].resCol
               /\ entries'[procs'[p].key].errCountSinceReset = 0
               /\ entries'[procs'[p].key].lastErr = NoErr
               /\ procs'[p].h.leftErrCount = 0]_vars

\* a call found an expired collection, failed twice, then fetched a new
\* one: the entry holds it with the count at 0 and no last error
C18_Witness ==
  \E p \in Procs :
    /\ DoneList(p) /\ FoundCol(procs[p])
    /\ procs[p].h.attempts = maxTriesForRequest
    /\ procs[p].resErr = NoErr
    /\ ~entries[procs[p].key].col.isNil
    /\ entries[procs[p].key].errCountSinceReset = 0
    /\ entries[procs[p].key].lastErr = NoErr
    /\ entries[procs[p].key].lastErrTime = now

\* C19: an unlocked entry has error count 0 exactly when it has no last
\* error; a finished GetCollection call on a key of the store that gave
\* no collection returned an error recorded from the upstream (its own
\* last failure, or the stored one when it made no attempt), never
\* ErrCacheFailure; ErrCacheFailure is returned for unknown keys only
C19_NoFallback ==
  /\ \A k \in Keys :
       ~entries[k].mu =>
         (entries[k].errCountSinceReset = 0 <=> entries[k].lastErr = NoErr)
  /\ \A p \in Procs :
       (DoneList(p) /\ procs[p].resCol.isNil) =>
         /\ procs[p].resErr \notin {NoErr, ErrCacheFailure}
         /\ procs[p].resErr =
              IF procs[p].h.attempts > 0 THEN procs[p].h.attemptErr
              ELSE procs[p].h.evalLastErr
  /\ \A p \in Procs :
       (procs[p].op = "list" /\ procs[p].pc = "idle"
          /\ procs[p].resErr = ErrCacheFailure) => procs[p].key \notin Keys

\* a call found the breaker tripped and cooled down, so it cleared the
\* count and the last error, and then failed three times: it returned the
\* upstream error
C19_Witness ==
  \E p \in Procs :
    /\ DoneList(p)
    /\ procs[p].h.evalErrCount = maxErrorsTotal
    /\ procs[p].h.evalSinceErr > waitBeforeReset
    /\ procs[p].h.attempts = maxTriesForRequest
    /\ procs[p].resErr = "fetch error"
    /\ entries[procs[p].key].errCountSinceReset = maxTriesForRequest

\* ErrCacheFailure was returned for an unknown pair
C19_UnknownWitness ==
  \E p \in Procs :
    /\ UnknownList(procs[p])
    /\ procs[p].resErr = ErrCacheFailure
    /\ entries[HourKey].errCountSinceReset > 0

\* in this step p's call is answered by the open breaker: it got the lock,
\* found the count at maxErrorsTotal and returned without an attempt
Rejected(p) ==
  /\ StepBy(p)
  /\ procs[p].pc = "lock" /\ procs'[p].pc = "idle"
  /\ procs'[p].op = "list"
  /\ procs'[p].h.evalErrCount >= maxErrorsTotal
  /\ procs'[p].h.attempts = 0

\* C20: a call answered by the open breaker leaves the error count, the
\* last error and its time as they were; the time of the last error
\* changes only when a fetch attempt fails, to the time of that failure;
\* so a call that finds the breaker tripped more than waitBeforeReset
\* after the last failed attempt makes a fetch attempt, whatever calls
\* were rejected in between
C20_RejectedKeepCooldown ==
  /\ [][/\ \A p \in Procs :
            Rejected(p) =>
              LET k == procs[p].key
              IN /\ procs'[p].resErr = entries[k].lastErr
                 /\ entries'[k].errCountSinceReset =
                      entries[k].errCountSinceReset
                 /\ entries'[k].lastErr = entries[k].lastErr
                 /\ entries'[k].lastErrTime = entries[k].lastErrTime
       /\ \A k \in Keys :
            entries'[k].lastErrTime # entries[k].lastErrTime =>
              /\ entries'[k].lastErrTime = now
              /\ entries'[k].errCountSinceReset =
                   entries[k].errCountSinceReset + 1
              /\ \E p \in Procs :
                   StepBy(p) /\ procs[p].pc = "fetch" /\ procs[p].key = k]_vars
  /\ [](\A p \in Procs :
          (/\ procs[p].h.evaluated
           /\ procs[p].h.evalErrCount >= maxErrorsTotal
           /\ procs[p].h.evalSinceErr > waitBeforeReset)
          => procs[p].h.attempts >= 1)

\* the key tripped at the start and a call at the last minute of the
\* cooldown was rejected: the entry still has the count, the error and
\* the time of the failure at the start
C20_Witness ==
  \E p \in Procs :
    /\ DoneList(p)
    /\ procs[p].h.evalErrCount = maxErrorsTotal
    /\ procs[p].h.attempts = 0
    /\ now = waitBeforeReset
    /\ entries[procs[p].key].lastErrTime = now - waitBeforeReset
    /\ entries[procs[p].key].errCountSinceReset = maxErrorsTotal
    /\ entries[procs[p].key].lastErr = procs[p].resErr
    /\ procs[p].resErr = "fetch error"

\* a call one minute after the cooldown that began with the failure at
\* the start made a fetch attempt
C20_HealWitness ==
  \E p \in Procs :
    /\ now = waitBeforeReset + 1
    /\ DoneList(p)
    /\ procs[p].h.evalErrCount = maxErrorsTotal
    /\ procs[p].h.evalSinceErr = waitBeforeReset + 1
    /\ procs[p].h.attempts >= 1

TypeOK ==
  /\ now >= 0
  /\ \A k \in Keys : entries[k].errCountSinceReset \in 0..maxErrorsTotal
====
